---- MODULE Spec2Model ----
(***************************************************************************)
(* Model of server/schedulers/multi_dim_scheduler.go: the multi-dimension  *)
(* hot-region scheduler.  One Schedule action per call of Schedule()       *)
(* (dispatch, summaryPendingInfluence, shouldWaitPendingOps,               *)
(* newMultiBalancer, solveMultiLoads, processSplit), and environment       *)
(* actions for operators ending and for time passing.                      *)
(*                                                                         *)
(* float64 loads are fixed-point integers: One stands for 1.0, so          *)
(* balanceRatio 0.1 is 10.  Raw loads are integers in the same unit.       *)
(***************************************************************************)
EXTENDS Integers, Sequences, FiniteSets, TLC

\* ------------------------------------------------------------------ units
One == 100
balanceRatioConst == 10
loadStableThresholdConst == 20
allowedDeviation == 5
\* splitTrigeCount value at which processSplit fires
splitTrigger == 5
\* h.conf.GetMaxZombieDuration(), in ticks of the model clock
MaxZombieDuration == 2
\* Schedule is not called any more once splitTrigeCount has reached this cap
MaxSplitTrige == 7
\* operators that can be tracked by the ledger at one time
MaxOps == 3

Axes == 0..5
Stores == {1, 2, 3}
Regions == {1, 2, 3, 4}
OpIds == 1..MaxOps

ZeroLoads == [i \in Axes |-> 0]
\* a load vector with only read-byte (axis 3) / only write-byte (axis 0) set
RB(x) == [i \in Axes |-> IF i = 3 THEN x ELSE 0]
WB(x) == [i \in Axes |-> IF i = 0 THEN x ELSE 0]
RK(x) == [i \in Axes |-> IF i = 4 THEN x ELSE 0]
RBKO(b, k, o) == [i \in Axes |-> IF i = 3 THEN b ELSE IF i = 4 THEN k ELSE IF i = 5 THEN o ELSE 0]
WRB(w, r) == [i \in Axes |-> IF i = 0 THEN w ELSE IF i = 3 THEN r ELSE 0]

\* a local variable of the code: computed once, then read
TheOne(S) == CHOOSE e \in S : TRUE

Abs(x) == IF x < 0 THEN 0 - x ELSE x
Min2(a, b) == IF a < b THEN a ELSE b

RECURSIVE SumOver(_, _)
SumOver(S, f) ==
    IF S = {} THEN 0
    ELSE LET x == CHOOSE y \in S : TRUE IN f[x] + SumOver(S \ {x}, f)

\* per-axis noise floors (hotWriteRegionMin*/hotReadRegionMin* of the hot scheduler)
minExpLoads == [i \in Axes |-> 10]

\* ------------------------------------------------------- cluster inputs
\* What opt.Cluster hands to the scheduler: the store statistics, the hot peer
\* statistics, the region metadata and the outcome of the store filters.
HotPeer(r, s, ld, loads) == [regionID |-> r, storeID |-> s, isLeader |-> ld, loads |-> loads]
RegionMeta(peers, leader) == [peers |-> peers, leader |-> leader, voters |-> peers, healthy |-> TRUE]
NoRegion == [peers |-> {}, leader |-> 0, voters |-> {}, healthy |-> FALSE]

MkCluster(stores, loads, hot, regions) ==
    [stores |-> stores, storeLoads |-> loads, hotPeers |-> hot, regions |-> regions,
     noRegionTarget |-> {}, noLeaderTarget |-> {}, builderErr |-> {}]

AllThree == {1, 2, 3}

\* S1 of the specification: two stores, R1's leader on store 1 with read-byte
\* 1.5 (normalized), its follower on store 2 with no read load.
ClusterTwoStores ==
    MkCluster({1, 2},
        [s \in Stores |-> IF s = 1 THEN RB(200) ELSE ZeroLoads],
        {HotPeer(1, 1, TRUE, RB(150)), HotPeer(1, 2, FALSE, ZeroLoads)},
        [r \in Regions |-> IF r = 1 THEN RegionMeta({1, 2}, 1) ELSE NoRegion])

\* read imbalance over three stores, every region replicated on all of them
ClusterRead ==
    MkCluster(AllThree,
        [s \in Stores |-> IF s = 1 THEN RB(155) ELSE IF s = 2 THEN RB(100) ELSE RB(45)],
        {HotPeer(1, 1, TRUE, RB(90)), HotPeer(2, 1, TRUE, RB(44)),
         HotPeer(3, 2, TRUE, RB(100)), HotPeer(4, 3, TRUE, RB(45))},
        [r \in Regions |-> RegionMeta(AllThree, IF r \in {1, 2} THEN 1 ELSE r - 1)])

\* the same statistics, but the operator builder rejects region 2
ClusterReadBuilderErr == [ClusterRead EXCEPT !.builderErr = {2}]

\* the same statistics, but region 2 is unhealthy (getRegion returns nil)
ClusterReadUnhealthy ==
    [ClusterRead EXCEPT !.regions = [r \in Regions |->
        IF r = 2 THEN [ClusterRead.regions[r] EXCEPT !.healthy = FALSE]
        ELSE ClusterRead.regions[r]]]

\* S2 of the specification: one oversized write-byte region on store 1
ClusterSplit ==
    MkCluster(AllThree,
        [s \in Stores |-> IF s = 1 THEN WB(240) ELSE WB(30)],
        {HotPeer(1, 1, TRUE, WB(200)), HotPeer(2, 2, TRUE, WB(30)), HotPeer(3, 3, TRUE, WB(30))},
        [r \in Regions |-> IF r = 4 THEN NoRegion ELSE RegionMeta({r}, r)])

\* nearly balanced: no store above 1 + balanceRatio
ClusterNear ==
    MkCluster(AllThree,
        [s \in Stores |-> IF s = 1 THEN RB(105) ELSE IF s = 2 THEN RB(100) ELSE RB(95)],
        {HotPeer(1, 1, TRUE, RB(105)), HotPeer(2, 2, TRUE, RB(100)), HotPeer(3, 3, TRUE, RB(95))},
        [r \in Regions |-> IF r = 4 THEN NoRegion ELSE RegionMeta(AllThree, r)])

\* store 1 at 1.32; moving region 1 (0.30) would put a destination at 1.13 or 1.15
ClusterEdge ==
    MkCluster(AllThree,
        [s \in Stores |-> IF s = 1 THEN RB(132) ELSE IF s = 2 THEN RB(85) ELSE RB(83)],
        {HotPeer(4, 1, TRUE, RB(90)), HotPeer(1, 1, TRUE, RB(30)),
         HotPeer(2, 2, TRUE, RB(85)), HotPeer(3, 3, TRUE, RB(83))},
        [r \in Regions |-> RegionMeta(AllThree, IF r \in {1, 4} THEN 1 ELSE r)])

\* a small region (0.10) on store 2 (1.12) whose only leader target is the
\* hotter store 1 (store 3 rejects leaders)
ClusterSmall ==
    [MkCluster(AllThree,
        [s \in Stores |-> IF s = 1 THEN RB(168) ELSE IF s = 2 THEN RB(112) ELSE RB(20)],
        {HotPeer(1, 1, TRUE, RB(150)), HotPeer(3, 2, TRUE, RB(95)),
         HotPeer(2, 2, TRUE, RB(10)), HotPeer(4, 3, TRUE, RB(20))},
        [r \in Regions |-> RegionMeta(AllThree, IF r = 1 THEN 1 ELSE IF r = 4 THEN 3 ELSE 2)])
     EXCEPT !.noLeaderTarget = {3}]

\* write imbalance, two replicas per region: move-peer is possible
ClusterWrite ==
    MkCluster(AllThree,
        [s \in Stores |-> IF s = 1 THEN WB(150) ELSE IF s = 2 THEN WB(100) ELSE WB(50)],
        {HotPeer(1, 1, TRUE, WB(40)), HotPeer(1, 2, FALSE, WB(40)),
         HotPeer(2, 1, FALSE, WB(60)), HotPeer(2, 2, TRUE, WB(60)),
         HotPeer(3, 1, FALSE, WB(50)), HotPeer(3, 3, TRUE, WB(50))},
        [r \in Regions |-> IF r = 1 THEN RegionMeta({1, 2}, 1)
                           ELSE IF r = 2 THEN RegionMeta({1, 2}, 2)
                           ELSE IF r = 3 THEN RegionMeta({1, 3}, 3) ELSE NoRegion])

\* write and read load together: the leader of region 1 carries both
ClusterMixed ==
    MkCluster(AllThree,
        [s \in Stores |-> IF s = 1 THEN WRB(100, 160) ELSE IF s = 2 THEN WRB(100, 100) ELSE WRB(100, 40)],
        {HotPeer(1, 1, TRUE, WRB(50, 60)), HotPeer(1, 3, FALSE, WB(50)),
         HotPeer(2, 1, TRUE, WRB(50, 100)), HotPeer(2, 2, FALSE, WB(50)),
         HotPeer(3, 2, TRUE, WRB(50, 100)), HotPeer(3, 3, FALSE, WB(50)),
         HotPeer(4, 3, TRUE, RB(40))},
        [r \in Regions |-> IF r = 1 THEN RegionMeta({1, 3}, 1)
                           ELSE IF r = 2 THEN RegionMeta({1, 2}, 1)
                           ELSE IF r = 3 THEN RegionMeta({2, 3}, 2) ELSE RegionMeta({3}, 3)])

\* S4: every expected load below its noise floor
ClusterNoise ==
    MkCluster(AllThree,
        [s \in Stores |-> IF s = 1 THEN RB(5) ELSE IF s = 2 THEN RB(3) ELSE RB(1)],
        {HotPeer(1, 1, TRUE, RB(5))},
        [r \in Regions |-> RegionMeta(AllThree, 1)])

\* S3: the hot peers explain too little of store 1's load
ClusterUnstable ==
    MkCluster(AllThree,
        [s \in Stores |-> IF s = 1 THEN RB(155) ELSE IF s = 2 THEN RB(100) ELSE RB(45)],
        {HotPeer(2, 1, TRUE, RB(44)), HotPeer(3, 2, TRUE, RB(100)), HotPeer(4, 3, TRUE, RB(45))},
        [r \in Regions |-> RegionMeta(AllThree, IF r \in {1, 2} THEN 1 ELSE r - 1)])

\* the two stores of S1 again, store 2 carrying some load no hot peer explains
ClusterTwoStoresCold ==
    MkCluster({1, 2},
        [s \in Stores |-> IF s = 1 THEN RB(180) ELSE IF s = 2 THEN RB(20) ELSE ZeroLoads],
        {HotPeer(1, 1, TRUE, RB(150)), HotPeer(1, 2, FALSE, ZeroLoads)},
        [r \in Regions |-> IF r = 1 THEN RegionMeta({1, 2}, 1) ELSE NoRegion])

\* one move (region 1, 0.16) brings the cluster within the relaxed tolerance
ClusterSettle ==
    MkCluster(AllThree,
        [s \in Stores |-> IF s = 1 THEN RB(120) ELSE IF s = 2 THEN RB(100) ELSE RB(80)],
        {HotPeer(1, 1, TRUE, RB(16)), HotPeer(2, 1, TRUE, RB(85)),
         HotPeer(3, 2, TRUE, RB(100)), HotPeer(4, 3, TRUE, RB(80))},
        [r \in Regions |-> RegionMeta(AllThree, IF r \in {1, 2} THEN 1 ELSE r - 1)])

\* two read-key regions of 0.80 on store 1 (2.0) that no store can take
ClusterSplitTwo ==
    MkCluster(AllThree,
        [s \in Stores |-> IF s = 1 THEN RK(200) ELSE RK(50)],
        {HotPeer(1, 1, TRUE, RK(80)), HotPeer(2, 1, TRUE, RK(80)),
         HotPeer(3, 2, TRUE, RK(50)), HotPeer(4, 3, TRUE, RK(50))},
        [r \in Regions |-> RegionMeta(AllThree, IF r \in {1, 2} THEN 1 ELSE r - 1)])

\* ClusterSmall with region 2 at 0.12: a large region whose only leader target
\* is the hotter store 1
ClusterLargeBlocked ==
    [MkCluster(AllThree,
        [s \in Stores |-> IF s = 1 THEN RB(168) ELSE IF s = 2 THEN RB(112) ELSE RB(20)],
        {HotPeer(1, 1, TRUE, RB(150)), HotPeer(3, 2, TRUE, RB(93)),
         HotPeer(2, 2, TRUE, RB(12)), HotPeer(4, 3, TRUE, RB(20))},
        [r \in Regions |-> RegionMeta(AllThree, IF r = 1 THEN 1 ELSE IF r = 4 THEN 3 ELSE 2)])
     EXCEPT !.noLeaderTarget = {3}]

\* two movable regions on store 1 (1.60): region 1 (0.66), which the operator
\* builder rejects, and region 2 (0.64); store 3 (0.40) can take either
ClusterBuilderErrNext ==
    [MkCluster(AllThree,
        [s \in Stores |-> IF s = 1 THEN RB(160) ELSE IF s = 2 THEN RB(100) ELSE RB(40)],
        {HotPeer(1, 1, TRUE, RB(66)), HotPeer(2, 1, TRUE, RB(64)),
         HotPeer(3, 2, TRUE, RB(100)), HotPeer(4, 3, TRUE, RB(40))},
        [r \in Regions |-> RegionMeta(AllThree, IF r \in {1, 2} THEN 1 ELSE r - 1)])
     EXCEPT !.builderErr = {1}]

\* a region (2) that is small on read bytes (0.10), the one allowed axis, and
\* carries most of store 2's read keys (below their floor, mean 9) and some of its
\* read ops (above it, mean 50); its only leader target is store 1 (1.88, none
\* of it from hot peers); store 3 is idle and takes no leaders
ClusterSmallKeys ==
    [MkCluster(AllThree,
        [s \in Stores |-> IF s = 1 THEN RBKO(188, 6, 50)
                          ELSE IF s = 2 THEN RBKO(112, 15, 50) ELSE RBKO(0, 6, 50)],
        {HotPeer(3, 2, TRUE, RBKO(100, 0, 30)), HotPeer(2, 2, TRUE, RBKO(10, 15, 20))},
        [r \in Regions |-> RegionMeta(AllThree, IF r = 1 THEN 1 ELSE IF r = 4 THEN 3 ELSE 2)])
     EXCEPT !.noLeaderTarget = {3}]

Clusters ==
    << ClusterTwoStores, ClusterRead, ClusterReadBuilderErr, ClusterReadUnhealthy,
       ClusterSplit, ClusterNear, ClusterEdge, ClusterSmall, ClusterWrite,
       ClusterMixed, ClusterNoise, ClusterUnstable, ClusterTwoStoresCold,
       ClusterSettle, ClusterSplitTwo, ClusterLargeBlocked, ClusterBuilderErrNext,
       ClusterSmallKeys >>
ClusterIds == DOMAIN Clusters

\* the changes of the reported statistics the model follows: the nearly
\* balanced cluster drifts to ClusterEdge and back
statsAfter(cid) ==
    IF Clusters[cid] = ClusterNear THEN {x \in ClusterIds : Clusters[x] = ClusterEdge}
    ELSE IF Clusters[cid] = ClusterEdge THEN {x \in ClusterIds : Clusters[x] = ClusterNear}
    ELSE {}

\* ------------------------------------------------------------------ state
VARIABLES
    cluster,                \* what opt.Cluster currently reports (an index of Clusters)
    ops,                    \* operator.Operator objects the ledger still references
    pendings,               \* h.pendings
    regionPendings,         \* h.regionPendings: region id -> operator
    pendingSums,            \* h.pendingSums
    balanceRatio,           \* h.balanceRatio
    relaxBalanceCondition,  \* h.relaxBalanceCondition
    splitTrigeCount,        \* h.splitTrigeCount
    curBalancer,            \* h.curBalancer
    hasSplit,               \* h.hasSplit
    needInit,               \* h.needInit
    last,                   \* what the last Schedule call returned and logged
    timer                   \* the interval the caller of GetNextInterval holds

vars == << cluster, ops, pendings, regionPendings, pendingSums, balanceRatio,
           relaxBalanceCondition, splitTrigeCount, curBalancer, hasSplit, needInit, last,
           timer >>

NoBalancer == [nil |-> TRUE]

\* ----------------------------------------------------------------- ledger
IsEnd(op) == op.status # "running"

\* hotScheduler.calcPendingWeight, as a numerator over MaxZombieDuration: 1 while
\* the operator runs, decaying to 0 over the zombie window after a success,
\* 0 for any other end.
calcPendingWeight(op) ==
    IF ~IsEnd(op) THEN MaxZombieDuration
    ELSE IF op.status = "success" /\ op.endAge < MaxZombieDuration
         THEN MaxZombieDuration - op.endAge
    ELSE 0

\* the pendings summaryPendingLoadInfluence keeps (it deletes those of weight 0)
LivePendings(pd, o) == {p \in pd : calcPendingWeight(o[p.op]) > 0}

RECURSIVE InflSum(_, _, _, _)
InflSum(P, o, s, i) ==
    IF P = {} THEN 0
    ELSE LET p == CHOOSE q \in P : TRUE
             q == (p.loads[i] * calcPendingWeight(o[p.op])) \div MaxZombieDuration
         IN (IF p.to = s THEN q ELSE 0) - (IF p.from = s THEN q ELSE 0)
            + InflSum(P \ {p}, o, s, i)

summaryPendingLoadInfluence(pd, o) ==
    [s \in Stores |-> [i \in Axes |-> InflSum(LivePendings(pd, o), o, s, i)]]

\* gcRegionPendings: an entry goes once its operator has ended and
\* time.Now() is after op.GetStartTime() + MaxZombieDuration
gcKeepsAll(op) == op.startAge >= 0
gcKeepsUnlessSuccess(op) == ~(op.status = "success" /\ op.startAge > MaxZombieDuration)
gcKeeps(op) == ~(IsEnd(op) /\ op.startAge > MaxZombieDuration)

gcRegionPendings(rp, o) ==
    LET keep == {r \in DOMAIN rp : gcKeeps(o[rp[r]])}
    IN [r \in keep |-> rp[r]]

\* the ledger after summaryPendingInfluence()
summaryPendingInfluence(led) ==
    LET pd == LivePendings(led.pendings, led.ops)
        rp == gcRegionPendings(led.regionPendings, led.ops)
        used == {p.op : p \in pd} \cup {rp[r] : r \in DOMAIN rp}
    IN [ops |-> [id \in used |-> led.ops[id]], pendings |-> pd, regionPendings |-> rp,
        pendingSums |-> summaryPendingLoadInfluence(led.pendings, led.ops)]

FreeIds(led) == OpIds \ DOMAIN led.ops

addPendingNoIndex(led, desc, from, to, infl) ==
    IF desc.region \in DOMAIN led.regionPendings THEN [ok |-> FALSE, led |-> led]
    ELSE LET id == CHOOSE x \in FreeIds(led) : \A y \in FreeIds(led) : x <= y
             op == [region |-> desc.region, kind |-> desc.kind, status |-> "running",
                    startAge |-> 0, endAge |-> 0]
         IN [ok |-> TRUE,
             led |-> [led EXCEPT
                !.ops = [x \in DOMAIN led.ops \cup {id} |-> IF x = id THEN op ELSE led.ops[x]],
                !.pendings = @ \cup {[op |-> id, from |-> from, to |-> to, loads |-> infl]}]]
\* addPendingInfluence: refused when the region already has an entry
addPendingInfluence(led, desc, from, to, infl) ==
    IF desc.region \in DOMAIN led.regionPendings THEN [ok |-> FALSE, led |-> led]
    ELSE LET id == CHOOSE x \in FreeIds(led) : \A y \in FreeIds(led) : x <= y
             op == [region |-> desc.region, kind |-> desc.kind, status |-> "running",
                    startAge |-> 0, endAge |-> 0]
         IN [ok |-> TRUE,
             led |-> [led EXCEPT
                !.ops = [x \in DOMAIN led.ops \cup {id} |-> IF x = id THEN op ELSE led.ops[x]],
                !.pendings = @ \cup {[op |-> id, from |-> from, to |-> to, loads |-> infl]},
                !.regionPendings = [r \in DOMAIN led.regionPendings \cup {desc.region} |->
                                      IF r = desc.region THEN id ELSE led.regionPendings[r]]]]

\* --------------------------------------------------------------- snapshot
\* expLoads: the per-axis mean of the raw store loads (before pending influence)
expLoadsOf(c) ==
    [i \in Axes |->
        SumOver(c.stores, [s \in c.stores |-> c.storeLoads[s][i]]) \div Cardinality(c.stores)]

allowedDimensionsWithOps(expLoads) ==
    {i \in Axes : expLoads[i] >= minExpLoads[i]}
\* needSkipSchedule: the allowed dimensions
allowedDimensionsOf(expLoads) ==
    {i \in Axes : ~(i = 2 \/ i = 5) /\ expLoads[i] >= minExpLoads[i]}

\* x / e on float64, in fixed point.  An axis whose expected load is 0 is never
\* allowed, and the decision reads allowed axes only: its quotient is kept as 0.
Normalize(x, e) == IF e = 0 THEN 0 ELSE (x * One) \div e

\* newPeerInfo and the loop body of initHotPeerInfo that fills its loads
peerInfoOf(hp, expLoads) ==
    [regionID |-> hp.regionID, storeID |-> hp.storeID, isLeader |-> hp.isLeader,
     loads |-> [i \in Axes |-> IF ~hp.isLeader /\ i >= 3 THEN 0
                               ELSE Normalize(hp.loads[i], expLoads[i])],
     raw |-> hp.loads]

\* hotPeersTotalLoads[i] of a store: what its hot peers account for, in raw units
hotPeersTotalLoads(c, s, i) ==
    LET P == {hp \in c.hotPeers : hp.storeID = s}
    IN SumOver(P, [hp \in P |-> IF ~hp.isLeader /\ i >= 3 THEN 0 ELSE hp.loads[i]])

\* maxLoadDiffRatio > loadStableThresholdConst.  The ratio of a store whose total
\* is 0 is NaN (0/0) or +Inf (x/0); math.Max returns +Inf if an operand is +Inf,
\* else NaN if an operand is NaN, and NaN > threshold is false.
loadNotStable(c, total, allowed) ==
    LET pairs == c.stores \X allowed
        hot(q) == hotPeersTotalLoads(c, q[1], q[2])
        tot(q) == total[q[1]][q[2]]
        anyInf == \E q \in pairs : tot(q) = 0 /\ hot(q) # 0
        anyNaN == \E q \in pairs : tot(q) = 0 /\ hot(q) = 0
        anyOver == \E q \in pairs : tot(q) # 0 /\
                       Abs(tot(q) - hot(q)) * One > loadStableThresholdConst * Abs(tot(q))
    IN anyInf \/ (~anyNaN /\ anyOver)

\* the snapshot built from the cluster input c, its expected loads, the store
\* totals with the pending sums added, and the allowed dimensions
snapshotOf(cid, c, expLoads, total, allowed) ==
    LET empty == [cluster |-> cid, storeIds |-> {}, loads |-> [s \in Stores |-> ZeroLoads],
                  hotPeers |-> [s \in Stores |-> {}], allowedDimensions |-> allowed,
                  splitCandidates |-> [s \in Stores |-> << >>], scheduledRegions |-> {},
                  skipSchedule |-> TRUE]
    IN IF allowed = {} THEN empty
       ELSE [empty EXCEPT
               !.storeIds = c.stores,
               !.loads = [s \in Stores |-> IF s \in c.stores
                            THEN [i \in Axes |-> Normalize(total[s][i], expLoads[i])]
                            ELSE ZeroLoads],
               !.hotPeers = [s \in Stores |->
                            {peerInfoOf(hp, expLoads) : hp \in {x \in c.hotPeers : x.storeID = s}}],
               !.skipSchedule = loadNotStable(c, total, allowed)]

\* newMultiBalancer / initHotPeerInfo on cluster input cid with the pending sums
initHotPeerInfo(cid, psums) ==
    TheOne({snapshotOf(cid, c, expLoads, total, allowed) :
              c \in {Clusters[cid]},
              expLoads \in {expLoadsOf(Clusters[cid])},
              total \in {[s \in Stores |->
                            [i \in Axes |-> Clusters[cid].storeLoads[s][i] + psums[s][i]]]},
              allowed \in {allowedDimensionsOf(expLoadsOf(Clusters[cid]))}})

\* initHotPeerInfo sets sche.needInit when the load is not stable (lines 397-403)
initSetsNeedInit(b) == b.skipSchedule /\ b.storeIds # {}

\* ------------------------------------------------------------ destination
MaxFloat64 == 1000000
loadCanTransfered(i) == i >= 3

\* storeInfo.getMaxLoadInfo: the worst allowed axis of a store and its load
MaxOf(S) == CHOOSE x \in S : \A y \in S : y <= x
MinOf(S) == CHOOSE x \in S : \A y \in S : x <= y
getMaxLoad(loads, allowed) == MaxOf({loads[i] : i \in allowed} \cup {0})
getMaxID(loads, allowed) ==
    LET m == getMaxLoad(loads, allowed)
        at == {i \in allowed : loads[i] = m}
    IN IF at = {} THEN MinOf(allowed) ELSE MinOf(at)

\* getCandidateStoreIDs: the stores the filters let through for this operation
getCandidateStoreIDs(c, region, opTy) ==
    IF opTy = "movePeer"
    THEN {s \in c.stores : s \notin region.peers /\ s \notin c.noRegionTarget}
    ELSE {s \in region.peers : s # region.leader /\ s \in c.stores /\ s \notin c.noLeaderTarget}

loadOfMigratedLeast(loads, peer, opTy, allowed) ==
    LET dims == {i \in allowed : ~(opTy = "transferLeader" /\ ~loadCanTransfered(i))}
    IN MinOf({loads[i] + peer.loads[i] : i \in dims} \cup {MaxFloat64})
\* loadOfMigrated: the destination's worst scored axis once the peer is added
loadOfMigrated(loads, peer, opTy, allowed) ==
    LET dims == {i \in allowed : ~(opTy = "transferLeader" /\ ~loadCanTransfered(i))}
    IN MaxOf({loads[i] + peer.loads[i] : i \in dims} \cup {0})

\* the test of filterDstStores on one store
acceptDstNoCap(newLoad, br, isLargeRegion) == newLoad <= MaxFloat64
acceptDst(newLoad, br, isLargeRegion) == newLoad <= One + br \/ ~isLargeRegion

\* the body of the loop of filterDstStores on store s: the best store so far
filterStep(b, br, peer, region, opTy, isLargeRegion, s, best) ==
    LET newLoad == loadOfMigrated(b.loads[s], peer, opTy, b.allowedDimensions)
    IN IF /\ s \in getCandidateStoreIDs(Clusters[b.cluster], region, opTy)
          /\ acceptDst(newLoad, br, isLargeRegion)
          /\ newLoad < best.minLoad
       THEN [dst |-> s, minLoad |-> newLoad]
       ELSE best

\* filterDstStores: the first store, in storeInfos order, of least newLoad among
\* the accepted candidates
RECURSIVE filterDstStores(_, _, _, _, _, _, _, _, _)
filterDstStores(b, br, peer, region, opTy, isLargeRegion, order, n, best) ==
    IF n > Len(order) THEN best
    ELSE TheOne({filterDstStores(b, br, peer, region, opTy, isLargeRegion, order, n + 1, nb) :
                   nb \in {filterStep(b, br, peer, region, opTy, isLargeRegion, order[n], best)}})

NoDst == [dst |-> 0, minLoad |-> MaxFloat64]

isLargeRegionNever(peer, br, allowed) == \E i \in allowed : peer.loads[i] > MaxFloat64
\* isLargeRegion (lines 494-499): some allowed axis of the peer is above balanceRatio
isLargeRegionOf(peer, br, allowed) == \E i \in allowed : peer.loads[i] > br

\* pickBestDstStore: transfer-leader for a leader on a read axis, move-peer
\* always; move-peer wins only when strictly better
pickBestDstStore(b, br, peer, region, targetDim, order) ==
    TheOne({IF mp.minLoad < tl.minLoad
            THEN [dst |-> mp.dst, opTy |-> "movePeer", minLoad |-> mp.minLoad, large |-> large]
            ELSE [dst |-> tl.dst, opTy |-> "transferLeader", minLoad |-> tl.minLoad,
                  large |-> large] :
              large \in {isLargeRegionOf(peer, br, b.allowedDimensions)},
              tl \in {IF peer.isLeader /\ loadCanTransfered(targetDim)
                      THEN filterDstStores(b, br, peer, region, "transferLeader",
                               isLargeRegionOf(peer, br, b.allowedDimensions), order, 1, NoDst)
                      ELSE NoDst},
              mp \in {filterDstStores(b, br, peer, region, "movePeer",
                               isLargeRegionOf(peer, br, b.allowedDimensions), order, 1, NoDst)}})

\* the least post-migration load over all filter-passing stores, whatever the cap
\* (what the destination chooser would have had to accept); logged only
bestPostLoad(b, peer, region, targetDim) ==
    LET c == Clusters[b.cluster]
        tl == IF peer.isLeader /\ loadCanTransfered(targetDim)
              THEN {loadOfMigrated(b.loads[s], peer, "transferLeader", b.allowedDimensions) :
                        s \in getCandidateStoreIDs(c, region, "transferLeader")}
              ELSE {}
        mp == {loadOfMigrated(b.loads[s], peer, "movePeer", b.allowedDimensions) :
                        s \in getCandidateStoreIDs(c, region, "movePeer")}
    IN MinOf(tl \cup mp \cup {MaxFloat64})

\* ---------------------------------------------------------- decision loop
\* buildSortedPeers: the hot peers of a store by load on axis maxID, descending
\* (equal loads by region id)
RECURSIVE buildSortedPeers(_, _)
buildSortedPeers(P, maxID) ==
    IF P = {} THEN << >>
    ELSE LET top == CHOOSE p \in P : \A q \in P :
                        \/ p.loads[maxID] > q.loads[maxID]
                        \/ (p.loads[maxID] = q.loads[maxID] /\ p.regionID <= q.regionID)
         IN << top >> \o buildSortedPeers(P \ {top}, maxID)

\* selectedPeer.loads[maxID] + sortedPeers.remainLoads once sp[k] is popped
RECURSIVE remainLoadAt(_, _, _)
remainLoadAt(sp, k, maxID) ==
    IF k > Len(sp) THEN 0 ELSE sp[k].loads[maxID] + remainLoadAt(sp, k + 1, maxID)

\* "skip useless scheduling" (line 587)
uselessScheduling(remainLoad, maxLoad, br) ==
    remainLoad < br \/ remainLoad * 10 < (maxLoad - One) * 8

\* the peer is too big to move whole (line 596)
wouldUnderfillNever(maxLoad, peerLoad, br) == maxLoad - peerLoad < 0
wouldUnderfill(maxLoad, peerLoad, br) == maxLoad - peerLoad < One - br

\* the store is within tolerance (line 558)
withinToleranceOfOne(maxLoad, br) == maxLoad <= One
withinTolerance(maxLoad, br) == maxLoad <= One + br

\* balancer.getRegion: nil for a missing, unhealthy or badly replicated region
getRegion(c, r) == IF c.regions[r].healthy THEN c.regions[r] ELSE NoRegion

NoDecision == [srcStoreID |-> 0]

\* the body of the pop loop for the popped peer (lines 576-654): stop tells
\* whether the loop ends here (a break, or a destination found).  st carries
\* balanceRatio, relaxBalanceCondition, the split candidates and the log of
\* peers that found no destination.
tryPeer(b, st, s, maxID, maxLoad, sp, k, order, peer, region) ==
    LET asCand == [st EXCEPT !.cand[s] = Append(@, peer)]
        go(st1) == [stop |-> FALSE, found |-> FALSE, st |-> st1, deci |-> NoDecision]
    IN IF peer.regionID \in b.scheduledRegions THEN go(st)
       ELSE IF uselessScheduling(remainLoadAt(sp, k, maxID), maxLoad, st.br)
       THEN [stop |-> TRUE, found |-> FALSE, st |-> st, deci |-> NoDecision]
       ELSE IF wouldUnderfill(maxLoad, peer.loads[maxID], st.br) THEN go(asCand)
       ELSE IF ~region.healthy THEN go(st)
       ELSE TheOne({
              IF pick.dst = 0
              THEN go([asCand EXCEPT !.noDst = @ \cup
                         {[region |-> peer.regionID, src |-> s, large |-> pick.large,
                           best |-> bestPostLoad(b, peer, region, maxID)]}])
              ELSE [stop |-> TRUE, found |-> TRUE, st |-> st,
                    deci |-> [srcStoreID |-> s, dstStoreID |-> pick.dst, opTy |-> pick.opTy,
                              peer |-> peer, region |-> region, maxID |-> maxID,
                              maxLoad |-> maxLoad, dstLoads |-> b.loads[pick.dst],
                              newLoad |-> pick.minLoad, large |-> pick.large, br |-> st.br]] :
              pick \in {pickBestDstStore(b, st.br, peer, region, maxID, order)}})

\* the pop loop of one source store (lines 573-654), up to the choice of a
\* destination
RECURSIVE popPeers(_, _, _, _, _, _, _, _)
popPeers(b, st, s, maxID, maxLoad, sp, k, order) ==
    IF k > Len(sp) THEN [found |-> FALSE, st |-> st, deci |-> NoDecision]
    ELSE TheOne({IF t.stop THEN [found |-> t.found, st |-> t.st, deci |-> t.deci]
                 ELSE popPeers(b, t.st, s, maxID, maxLoad, sp, k + 1, order) :
                   t \in {tryPeer(b, st, s, maxID, maxLoad, sp, k, order, sp[k],
                                  getRegion(Clusters[b.cluster], sp[k].regionID))}})

\* lines 562-565: an overloaded store ends the relaxation
endRelaxNever(st) == st
endRelax(st) ==
    IF st.relax THEN [st EXCEPT !.br = balanceRatioConst, !.relax = FALSE] ELSE st

\* one overloaded store (lines 562-654): the relaxation ends, then its peers
\* are popped
popStore(b, st, s, order) ==
    TheOne({popPeers(b, st1, s, maxID, maxLoad, sp, 1, order) :
              st1 \in {endRelax(st)},
              maxID \in {getMaxID(b.loads[s], b.allowedDimensions)},
              maxLoad \in {getMaxLoad(b.loads[s], b.allowedDimensions)},
              sp \in {buildSortedPeers(b.hotPeers[s],
                                       getMaxID(b.loads[s], b.allowedDimensions))}})

\* the loop over the sorted stores (lines 556-660)
RECURSIVE solveStores(_, _, _, _)
solveStores(b, st, order, n) ==
    IF n > Len(order) THEN [found |-> FALSE, st |-> st, deci |-> NoDecision]
    ELSE IF withinTolerance(getMaxLoad(b.loads[order[n]], b.allowedDimensions), st.br)
    THEN solveStores(b, st, order, n + 1)
    ELSE TheOne({IF r.found THEN r ELSE solveStores(b, r.st, order, n + 1) :
                   r \in {popStore(b, st, order[n], order)}})

\* lines 526-541: the axis of the globally highest load (the first pair found in
\* storeInfos order, so any store holding the maximum may decide it) ...
maxDimIDs(b) ==
    LET all == {b.loads[s][i] : s \in b.storeIds, i \in b.allowedDimensions} \cup {0}
        m == MaxOf(all)
        holders == {s \in b.storeIds : \E i \in b.allowedDimensions : b.loads[s][i] = m}
    IN IF m <= 0 THEN {0}
       ELSE {MinOf({i \in b.allowedDimensions : b.loads[s][i] = m}) : s \in holders}

\* ... and the orders sort.Slice may leave storeInfos in: descending on that axis,
\* stores of equal load in any order
storeOrders(b) ==
    IF b.skipSchedule THEN {<< >>}
    ELSE LET n == Cardinality(b.storeIds)
             perms == {f \in [1..n -> b.storeIds] : \A i, j \in 1..n : i # j => f[i] # f[j]}
         IN UNION {{f \in perms : \A i, j \in 1..n :
                        i < j => b.loads[f[i]][d] >= b.loads[f[j]][d]} : d \in maxDimIDs(b)}

\* ------------------------------------------------------------- operators
OpDesc(kind, region, src, dst, opts) ==
    [kind |-> kind, region |-> region, src |-> src, dst |-> dst, opts |-> opts]

\* buildOperators: << >> when the builder rejects the decision, else one operator
buildOperators(c, d) ==
    LET r == d.peer.regionID IN
    IF d.opTy = "movePeer"
    THEN IF d.srcStoreID \notin d.region.peers \/ r \in c.builderErr THEN << >>
         ELSE << OpDesc(IF d.region.leader = d.srcStoreID THEN "move-leader" ELSE "move-peer",
                        r, d.srcStoreID, d.dstStoreID, << >>) >>
    ELSE IF d.dstStoreID \notin d.region.voters \/ r \in c.builderErr THEN << >>
         ELSE << OpDesc("transfer-leader", r, d.srcStoreID, d.dstStoreID, << >>) >>

\* the load influence of the operator: the peer's raw loads, write axes zeroed
\* for a transfer-leader (lines 826-836)
influenceOf(d) ==
    [i \in Axes |-> IF d.opTy = "transferLeader" /\ i <= 2 THEN 0 ELSE d.peer.raw[i]]

\* migratePeer: the in-memory loads after the migration.  A move-peer carries
\* every axis and the peer itself; a transfer-leader carries the read axes.
migratePeer(b, d) ==
    LET moved(i) == d.opTy = "movePeer" \/ loadCanTransfered(i)
        p == d.peer
        src == d.srcStoreID
        dst == d.dstStoreID
        atDst == {q \in b.hotPeers[dst] : q.regionID = p.regionID}
        arrived == IF d.opTy = "movePeer" THEN [p EXCEPT !.storeID = dst]
                   ELSE [regionID |-> p.regionID, storeID |-> dst, isLeader |-> TRUE,
                         loads |-> [i \in Axes |-> IF loadCanTransfered(i) THEN p.loads[i]
                                      ELSE IF atDst = {} THEN 0
                                      ELSE (CHOOSE q \in atDst : TRUE).loads[i]],
                         raw |-> p.raw]
        stays == IF d.opTy = "movePeer" THEN {}
                 ELSE {[p EXCEPT !.isLeader = FALSE,
                                 !.loads = [i \in Axes |-> IF loadCanTransfered(i) THEN 0 ELSE p.loads[i]]]}
    IN [b EXCEPT
          !.loads[src] = [i \in Axes |-> IF moved(i) THEN @[i] - p.loads[i] ELSE @[i]],
          !.loads[dst] = [i \in Axes |-> IF moved(i) THEN @[i] + p.loads[i] ELSE @[i]],
          !.hotPeers[src] = (@ \ {p}) \cup stays,
          !.hotPeers[dst] = (@ \ atDst) \cup {arrived}]

\* calcBalanceRatio: the highest over the lowest store load on the allowed axes
calcBalanceRatio(b) ==
    LET all == {b.loads[s][i] : s \in b.storeIds, i \in b.allowedDimensions}
    IN IF all = {} THEN 0
       ELSE IF MinOf(all) <= 0 THEN MaxFloat64
       ELSE (MaxOf(all) * One) \div MinOf(all)

\* ----------------------------------------------------------- split fallback
\* convertToSplitInfo
splitTypeReadOne(dimID) == dimID \div 3
splitTypeOf(dimID) == 1 - (dimID \div 3)
splitDimOf(dimID) == IF dimID % 3 = 0 THEN 0 ELSE 1

\* splitRatio := balanceRatio / peer.loads[maxID]
splitRatioOf(br, load) == IF load = 0 THEN MaxFloat64 ELSE (br * One) \div load

\* buildSplitOperation
buildSplitAsMove(peer, s, dimID, splitRatio) ==
    OpDesc("move-peer", peer.regionID, s, s,
           << splitDimOf(dimID), splitRatio, splitTypeOf(dimID) >>)
buildSplitOperation(peer, s, dimID, splitRatio) ==
    OpDesc("split-region", peer.regionID, s, s,
           << splitDimOf(dimID), splitRatio, splitTypeOf(dimID) >>)

\* the body of the loop over one store's split candidates (lines 693-731); acc
\* carries the ledger, the operators built so far, hasSplit, the load split so
\* far and how the loop ended
splitStep(br, s, maxID, loadThreshold, peer, acc) ==
    LET splitRatio == splitRatioOf(br, peer.loads[maxID])
        op == buildSplitOperation(peer, s, maxID, splitRatio)
        reg == addPendingInfluence(acc.led, op, s, s, ZeroLoads)
    IN IF peer.regionID \in DOMAIN acc.led.regionPendings THEN acc
       ELSE IF splitRatio >= One THEN acc
       ELSE IF FreeIds(acc.led) = {} THEN [acc EXCEPT !.overflow = TRUE]
       ELSE IF ~reg.ok THEN [acc EXCEPT !.refused = TRUE]
       ELSE [acc EXCEPT !.led = reg.led, !.ops = Append(@, op), !.hasSplit = TRUE,
                        !.log = Append(@, [region |-> peer.regionID, store |-> s,
                                           maxID |-> maxID, load |-> peer.loads[maxID],
                                           br |-> br]),
                        !.sumLoad = @ + peer.loads[maxID],
                        !.enough = acc.sumLoad + peer.loads[maxID] >= loadThreshold]

RECURSIVE splitPeers(_, _, _, _, _, _, _)
splitPeers(br, s, maxID, loadThreshold, cands, k, acc) ==
    IF k > Len(cands) \/ acc.refused \/ acc.overflow \/ acc.enough THEN acc
    ELSE TheOne({splitPeers(br, s, maxID, loadThreshold, cands, k + 1, a) :
                   a \in {splitStep(br, s, maxID, loadThreshold, cands[k], acc)}})

\* one store of processSplit (lines 685-732)
splitStore(b, br, cand, s, acc) ==
    IF cand[s] = << >> \/ withinTolerance(getMaxLoad(b.loads[s], b.allowedDimensions), br)
    THEN acc
    ELSE splitPeers(br, s, getMaxID(b.loads[s], b.allowedDimensions),
                    getMaxLoad(b.loads[s], b.allowedDimensions) - One - br, cand[s], 1,
                    [acc EXCEPT !.sumLoad = 0, !.enough = FALSE])

RECURSIVE splitStores(_, _, _, _, _, _)
splitStores(b, br, cand, order, n, acc) ==
    IF n > Len(order) \/ acc.refused \/ acc.overflow THEN acc
    ELSE TheOne({splitStores(b, br, cand, order, n + 1, a) :
                   a \in {splitStore(b, br, cand, order[n], acc)}})

\* the counter value at which the fallback fires (line 683)
splitFiresFrom(count) == count >= splitTrigger
splitFiresEarly(count) == count = splitTrigger - 1
splitFires(count) == count = splitTrigger

\* processSplit: the counter goes up, and at the trigger value the candidates
\* of every overloaded store are split
processSplit(b, br, cand, order, count, led, hs) ==
    TheOne({[count |-> count + 1, led |-> acc.led, hasSplit |-> acc.hasSplit,
             ops |-> IF acc.refused THEN << >> ELSE acc.ops, overflow |-> acc.overflow,
             log |-> IF acc.refused THEN << >> ELSE acc.log] :
              acc \in {IF splitFires(count + 1)
                       THEN splitStores(b, br, cand, order, 1,
                              [led |-> led, ops |-> << >>, hasSplit |-> hs, log |-> << >>,
                               sumLoad |-> 0, enough |-> FALSE,
                               refused |-> FALSE, overflow |-> FALSE])
                       ELSE [led |-> led, ops |-> << >>, hasSplit |-> hs, log |-> << >>,
                             sumLoad |-> 0, enough |-> FALSE,
                             refused |-> FALSE, overflow |-> FALSE]}})

\* ------------------------------------------------------- solveMultiLoads
NoCandidates == [s \in Stores |-> << >>]

\* lines 662-668: relax when the loop emitted nothing and the cluster is close
\* to the target
relaxIfCloseFlagOnly(st, ratio) ==
    IF ~st.relax /\ ratio <= One + st.br + allowedDeviation
    THEN [st EXCEPT !.relax = TRUE]
    ELSE st
relaxIfClose(st, ratio) ==
    IF ~st.relax /\ ratio <= One + st.br + allowedDeviation
    THEN [st EXCEPT !.relax = TRUE, !.br = @ + allowedDeviation]
    ELSE st

\* the cycle once a destination is chosen (lines 634-652)
emitMove(b, r, count, hs, led) ==
    LET d == r.deci
        built == buildOperators(Clusters[b.cluster], d)
        full == built # << >> /\ FreeIds(led) = {}
        reg == IF built = << >> \/ full THEN [ok |-> TRUE, led |-> led]
               ELSE addPendingInfluence(led, built[1], d.srcStoreID, d.dstStoreID, influenceOf(d))
        b1 == [b EXCEPT !.splitCandidates = r.st.cand]
        b2 == [migratePeer(b1, d) EXCEPT !.scheduledRegions = @ \cup {d.peer.regionID}]
    IN IF ~reg.ok
       THEN [ret |-> << >>, b |-> b1, br |-> r.st.br, relax |-> r.st.relax, count |-> count,
             hasSplit |-> hs, led |-> led, path |-> "conflict", deci |-> d,
             noDst |-> r.st.noDst, overflow |-> FALSE, ratio |-> 0, splitLog |-> << >>]
       ELSE [ret |-> built, b |-> b2, br |-> r.st.br, relax |-> r.st.relax, count |-> 0,
             hasSplit |-> hs, led |-> reg.led,
             path |-> IF built = << >> THEN "buildfail" ELSE "move", deci |-> d,
             noDst |-> r.st.noDst, overflow |-> full, ratio |-> 0, splitLog |-> << >>]

\* the end of the cycle once the loop has ended without a destination, for the
\* balance ratio found and the relaxation decided on it (lines 670-674)
endCycle(b, r, st, ratio, order, count, hs, led) ==
    IF ratio > One + st.br
    THEN TheOne({[ret |-> sp.ops, b |-> b, br |-> st.br, relax |-> st.relax,
                  count |-> sp.count, hasSplit |-> sp.hasSplit, led |-> sp.led,
                  path |-> IF sp.ops = << >> THEN "nosplit" ELSE "split",
                  deci |-> NoDecision, noDst |-> r.st.noDst, overflow |-> sp.overflow,
                  ratio |-> ratio, splitLog |-> sp.log] :
                   sp \in {processSplit(b, st.br, r.st.cand, order, count, led, hs)}})
    ELSE [ret |-> << >>, b |-> b, br |-> st.br, relax |-> st.relax, count |-> count,
          hasSplit |-> hs, led |-> led, path |-> "balanced", deci |-> NoDecision,
          noDst |-> r.st.noDst, overflow |-> FALSE, ratio |-> ratio, splitLog |-> << >>]

\* the cycle once the loop has ended without a destination (lines 662-674)
noMove(b, r, order, count, hs, led) ==
    TheOne({endCycle(b1, r, st, ratio, order, count, hs, led) :
              ratio \in {calcBalanceRatio(b)},
              st \in {relaxIfClose(r.st, calcBalanceRatio(b))},
              b1 \in {[b EXCEPT !.splitCandidates = r.st.cand]}})

solveMultiLoads(b, br, relax, count, hs, led, order) ==
    IF b.skipSchedule
    THEN [ret |-> << >>, b |-> b, br |-> br, relax |-> relax, count |-> count,
          hasSplit |-> hs, led |-> led, path |-> "skip", deci |-> NoDecision,
          noDst |-> {}, overflow |-> FALSE, ratio |-> 0, splitLog |-> << >>]
    ELSE TheOne({IF r.found THEN emitMove(b, r, count, hs, led)
                 ELSE noMove(b, r, order, count, hs, led) :
                   r \in {solveStores(b, [br |-> br, relax |-> relax, cand |-> NoCandidates,
                                          noDst |-> {}], order, 1)}})

\* ---------------------------------------------------------------- actions
Ledger == [ops |-> ops, pendings |-> pendings, regionPendings |-> regionPendings,
           pendingSums |-> pendingSums]

IsSplit(op) == op.kind = "split-region"
Range(q) == {q[i] : i \in DOMAIN q}

\* cycles that reached the decision loop and emitted no move since one returned
\* split operators, counted up to the trigger value
sinceSplitAfter(path) ==
    IF path = "split" THEN 0
    ELSE IF path \in {"disabled", "wait", "skip", "move"} THEN last.sinceSplit
    ELSE Min2(last.sinceSplit + 1, splitTrigger)

\* whether split operators were returned and no call has observed an empty
\* region-pending index since
splitWaitAfter(ret, observed) ==
    IF \E i \in DOMAIN ret : IsSplit(ret[i]) THEN TRUE
    ELSE IF observed = 0 THEN FALSE
    ELSE last.splitWait

\* how many times processSplit was invoked since a cycle last went through lines
\* 647-652, where the decision loop has chosen a destination (or since the
\* scheduler was constructed)
psCallsAfter(path) ==
    IF path \in {"move", "buildfail"} THEN 0
    ELSE IF path \in {"split", "nosplit"} THEN last.psCalls + 1
    ELSE last.psCalls

\* what the last call of Schedule did; sinceSplit, splitWait and psCalls are carried from
\* call to call
NoCycle ==
    [flip |-> FALSE, path |-> "init", ret |-> << >>, observed |-> 0, zombies |-> 0,
     rebuilt |-> FALSE, deci |-> NoDecision, noDst |-> {}, ratio |-> 0,
     splitLog |-> << >>, relaxAtEntry |-> FALSE, countAtEntry |-> 0,
     sinceAtEntry |-> splitTrigger, sinceSplit |-> splitTrigger, splitWait |-> FALSE,
     psCalls |-> 0]

\* ------------------------------------------------------------- intervals
\* durations in units of 100 ms: one second and twenty seconds
minHotScheduleInterval == 10
maxHotScheduleInterval == 200

\* intervalGrow with exponentialGrowth: the interval times ScheduleIntervalFactor
\* (1.3), capped
intervalGrow(x, maxInterval) == Min2((x * 13) \div 10, maxInterval)

GetMinInterval == minHotScheduleInterval
GetNextIntervalOfPrev(interval) == intervalGrow(interval, maxHotScheduleInterval)
\* GetNextInterval(interval): the argument is not read
GetNextInterval(interval) == intervalGrow(GetMinInterval, maxHotScheduleInterval)

\* the caller's interval: where it started, the last argument it passed, what it
\* holds now and how many times it has called GetNextInterval
TimerAt(x) == [start |-> x, prev |-> x, cur |-> x, calls |-> 0]

Init ==
    /\ timer = TimerAt(GetMinInterval)
    /\ cluster \in ClusterIds
    /\ ops = << >>
    /\ pendings = {}
    /\ regionPendings = << >>
    /\ pendingSums = [s \in Stores |-> ZeroLoads]
    /\ balanceRatio = balanceRatioConst
    /\ relaxBalanceCondition = FALSE
    /\ splitTrigeCount = 0
    /\ curBalancer = NoBalancer
    /\ hasSplit = FALSE
    /\ needInit = FALSE
    /\ last = NoCycle

\* the operators the ledger refers to that finished more than the zombie window ago
Zombies(o) == {id \in DOMAIN o : IsEnd(o[id]) /\ o[id].endAge > MaxZombieDuration}

CycleEntry(observed) ==
    [NoCycle EXCEPT !.flip = ~last.flip, !.observed = observed,
                    !.zombies = Cardinality(Zombies(ops)),
                    !.relaxAtEntry = relaxBalanceCondition,
                    !.countAtEntry = splitTrigeCount,
                    !.sinceAtEntry = last.sinceSplit,
                    !.sinceSplit = last.sinceSplit,
                    !.splitWait = last.splitWait,
                    !.psCalls = last.psCalls]

\* dispatch with HotSchedulerMode > 0: nothing is touched
ScheduleDisabled ==
    /\ last' = [CycleEntry(0) EXCEPT !.path = "disabled", !.zombies = 0]
    /\ UNCHANGED << cluster, ops, pendings, regionPendings, pendingSums, balanceRatio,
                    relaxBalanceCondition, splitTrigeCount, curBalancer, hasSplit, needInit,
                    timer >>

\* an index that still has entries makes the cycle wait while the condition is
\* relaxed or a split is outstanding
shouldWaitAlways(numPendings, relax, hs, ni) ==
    [wait |-> numPendings # 0 /\ hs, hasSplit |-> IF numPendings = 0 THEN FALSE ELSE hs,
     needInit |-> TRUE]
shouldWaitRebuilds(numPendings, relax, hs, ni) ==
    IF numPendings = 0
    THEN [wait |-> FALSE, hasSplit |-> FALSE, needInit |-> TRUE]
    ELSE [wait |-> relax \/ hs, hasSplit |-> hs, needInit |-> TRUE]
shouldWaitRelaxOnly(numPendings, relax, hs, ni) ==
    IF numPendings = 0
    THEN [wait |-> FALSE, hasSplit |-> FALSE, needInit |-> TRUE]
    ELSE [wait |-> relax, hasSplit |-> hs, needInit |-> ni]
\* shouldWaitPendingOps: an empty index clears hasSplit and asks for a fresh
\* snapshot
shouldWaitPendingOps(numPendings, relax, hs, ni) ==
    IF numPendings = 0
    THEN [wait |-> FALSE, hasSplit |-> FALSE, needInit |-> TRUE]
    ELSE [wait |-> relax \/ hs, hasSplit |-> hs, needInit |-> ni]

\* needInit across lines 175-179 of dispatch: newMultiBalancer may write TRUE (line
\* 402, an unstable load), and line 178 writes FALSE after it has returned
dispatchNeedInit(rebuild, b, ni) ==
    IF rebuild
    THEN [afterInit |-> IF initSetsNeedInit(b) THEN TRUE ELSE ni,
          afterDispatch |-> FALSE].afterDispatch
    ELSE ni

\* dispatch with mode 0 (lines 165-180).  Each intermediate value is bound once,
\* as a one-element choice.
ScheduleEnabled ==
    \E led \in {summaryPendingInfluence(Ledger)} :
    LET br0 == balanceRatioConst + (IF relaxBalanceCondition THEN allowedDeviation ELSE 0)
        sw == shouldWaitPendingOps(Cardinality(DOMAIN led.regionPendings),
                                   relaxBalanceCondition, hasSplit, needInit)
        rebuild == curBalancer = NoBalancer \/ sw.needInit
        entry == CycleEntry(Cardinality(DOMAIN led.regionPendings))
    IN
    IF sw.wait
    THEN /\ ops' = led.ops
         /\ pendings' = led.pendings
         /\ regionPendings' = led.regionPendings
         /\ pendingSums' = led.pendingSums
         /\ balanceRatio' = br0
         /\ hasSplit' = sw.hasSplit
         /\ needInit' = sw.needInit
         /\ last' = [entry EXCEPT !.path = "wait"]
         /\ UNCHANGED << cluster, relaxBalanceCondition, splitTrigeCount, curBalancer, timer >>
    ELSE \E b \in {IF rebuild THEN initHotPeerInfo(cluster, led.pendingSums)
                   ELSE [curBalancer EXCEPT !.cluster = cluster]} :
         \E order \in storeOrders(b) :
         \E res \in {solveMultiLoads(b, br0, relaxBalanceCondition, splitTrigeCount,
                                     sw.hasSplit, led, order)} :
               /\ ~res.overflow
               /\ UNCHANGED << cluster, timer >>
               /\ ops' = res.led.ops
               /\ pendings' = res.led.pendings
               /\ regionPendings' = res.led.regionPendings
               /\ pendingSums' = res.led.pendingSums
               /\ balanceRatio' = res.br
               /\ relaxBalanceCondition' = res.relax
               /\ splitTrigeCount' = res.count
               /\ curBalancer' = res.b
               /\ hasSplit' = res.hasSplit
               /\ needInit' = dispatchNeedInit(rebuild, b, sw.needInit)
               /\ last' = [entry EXCEPT !.path = res.path, !.ret = res.ret,
                                        !.rebuilt = rebuild, !.deci = res.deci,
                                        !.noDst = res.noDst, !.ratio = res.ratio,
                                        !.splitLog = res.splitLog,
                                        !.sinceSplit = sinceSplitAfter(res.path),
                                        !.splitWait = splitWaitAfter(res.ret, entry.observed),
                                        !.psCalls = psCallsAfter(res.path)]

\* Schedule(): one call, whatever the configured mode
Schedule ==
    /\ splitTrigeCount < MaxSplitTrige
    /\ (ScheduleDisabled \/ ScheduleEnabled)

\* ------------------------------------------------------------ environment
IdsOf(o) == DOMAIN o

\* the controller finishes an operator
OpSucceed(id) ==
    /\ id \in IdsOf(ops) /\ ~IsEnd(ops[id])
    /\ ops' = [ops EXCEPT ![id].status = "success", ![id].endAge = 0]
    /\ UNCHANGED << cluster, pendings, regionPendings, pendingSums, balanceRatio,
                    relaxBalanceCondition, splitTrigeCount, curBalancer, hasSplit, needInit, last,
                    timer >>

\* the controller cancels an operator, or it times out or expires
OpCancel(id) ==
    /\ id \in IdsOf(ops) /\ ~IsEnd(ops[id])
    /\ ops' = [ops EXCEPT ![id].status = "cancelled", ![id].endAge = 0]
    /\ UNCHANGED << cluster, pendings, regionPendings, pendingSums, balanceRatio,
                    relaxBalanceCondition, splitTrigeCount, curBalancer, hasSplit, needInit, last,
                    timer >>

\* ages are counted up to one tick past the zombie window: beyond it every
\* comparison of the scheduler gives the same answer
AgeCap == MaxZombieDuration + 1
aged(op) ==
    [op EXCEPT !.startAge = Min2(@ + 1, AgeCap),
               !.endAge = IF IsEnd(op) THEN Min2(@ + 1, AgeCap) ELSE @]

\* one tick of time.Now()
Tick ==
    /\ \E id \in IdsOf(ops) : aged(ops[id]) # ops[id]
    /\ ops' = [id \in IdsOf(ops) |-> aged(ops[id])]
    /\ UNCHANGED << cluster, pendings, regionPendings, pendingSums, balanceRatio,
                    relaxBalanceCondition, splitTrigeCount, curBalancer, hasSplit, needInit, last,
                    timer >>

\* the statistics and metadata the cluster reports change between two calls
StatsChange ==
    /\ \E cid \in statsAfter(cluster) : cluster' = cid
    /\ UNCHANGED << ops, pendings, regionPendings, pendingSums, balanceRatio,
                    relaxBalanceCondition, splitTrigeCount, curBalancer, hasSplit, needInit, last,
                    timer >>

Next ==
    \/ Schedule
    \/ StatsChange
    \/ \E id \in OpIds : OpSucceed(id)
    \/ \E id \in OpIds : OpCancel(id)
    \/ Tick

Spec == Init /\ [][Next]_vars

\* ------------------------------------ the scheduler that keeps being called
\* HotSchedulerMode stays 0, Schedule keeps being called, time advances and every
\* operator ends
ScheduleMode0 ==
    /\ splitTrigeCount < MaxSplitTrige
    /\ ScheduleEnabled

OpEnds(id) == OpSucceed(id) \/ OpCancel(id)

NextLive ==
    \/ ScheduleMode0
    \/ StatsChange
    \/ \E id \in OpIds : OpEnds(id)
    \/ Tick

\* the statistics under which the wait guard comes to hold: a relaxed condition
\* (ClusterNear, ClusterEdge, ClusterSettle) and an outstanding split (ClusterSplit,
\* ClusterSplitTwo)
LiveClusters == {ClusterSplit, ClusterNear, ClusterEdge, ClusterSettle, ClusterSplitTwo}

InitLive ==
    /\ Init
    /\ Clusters[cluster] \in LiveClusters

SpecLive ==
    /\ InitLive
    /\ [][NextLive]_vars
    /\ WF_vars(ScheduleMode0)
    /\ WF_vars(Tick)
    /\ \A id \in OpIds : WF_vars(OpEnds(id))

\* ------------------------------------------- GetNextInterval on its own
\* the caller feeds the interval it holds back as the argument, from any start
MaxPrev == 250
MaxCalls == 4

InitInterval ==
    /\ timer \in {TimerAt(x) : x \in 0..MaxPrev}
    /\ cluster = 1
    /\ ops = << >>
    /\ pendings = {}
    /\ regionPendings = << >>
    /\ pendingSums = [s \in Stores |-> ZeroLoads]
    /\ balanceRatio = balanceRatioConst
    /\ relaxBalanceCondition = FALSE
    /\ splitTrigeCount = 0
    /\ curBalancer = NoBalancer
    /\ hasSplit = FALSE
    /\ needInit = FALSE
    /\ last = NoCycle

NextInterval ==
    /\ timer.calls < MaxCalls
    /\ timer' = [start |-> timer.start, prev |-> timer.cur,
                 cur |-> GetNextInterval(timer.cur), calls |-> timer.calls + 1]
    /\ UNCHANGED << cluster, ops, pendings, regionPendings, pendingSums, balanceRatio,
                    relaxBalanceCondition, splitTrigeCount, curBalancer, hasSplit, needInit,
                    last >>

SpecInterval == InitInterval /\ [][NextInterval]_vars

\* ================================================================ properties
IsMove(op) == op.kind \in {"move-peer", "move-leader", "transfer-leader"}
Cycled == last'.flip # last.flip
RanLoop(path) == path \in {"move", "buildfail", "conflict", "split", "nosplit", "balanced"}

C2_OneOutcomePerCycle ==
    \/ last.ret = << >>
    \/ \A op \in Range(last.ret) : IsSplit(op)
    \/ /\ \A op \in Range(last.ret) : IsMove(op)
       /\ \A op \in Range(last.ret) :
             /\ op.region = last.ret[1].region
             /\ op.src = last.ret[1].src
             /\ op.dst = last.ret[1].dst

\* a cycle returned a batch of two split operators
C2_SplitBatchReturned ==
    /\ Len(last.ret) = 2
    /\ \A op \in Range(last.ret) : IsSplit(op)
    /\ last.ret[1].region # last.ret[2].region

\* the destination's load on the source's worst axis, once the peer has arrived
DstAfterMove(d) == d.dstLoads[d.maxID] + d.peer.loads[d.maxID]

\* C3 (as stated): for every emitted move, small regions included, the
\* destination's load plus the peer's on the source's worst axis does not exceed
\* the source's load on that axis at the moment of decision.
C3_DstNeverAboveSrc ==
    last.path = "move" => DstAfterMove(last.deci) <= last.deci.maxLoad

\* C3 (amended): for every emitted move of a large region the destination's
\* load plus the peer's on the source's worst axis is at most 1 + balanceRatio,
\* which the source's load on that axis exceeds.
C3_LargeMoveDstBelowSrc ==
    (last.path = "move" /\ last.deci.large) =>
        /\ DstAfterMove(last.deci) <= One + balanceRatioConst
        /\ One + balanceRatioConst < last.deci.maxLoad
        /\ DstAfterMove(last.deci) <= last.deci.maxLoad

\* a large region was moved
C3_LargeMoveEmitted ==
    /\ last.path = "move"
    /\ last.deci.large
    /\ DstAfterMove(last.deci) > 0

\* the store loads a freshly built snapshot of this cycle holds
FreshMaxLoads(cid, psums) ==
    LET b == initHotPeerInfo(cid, psums)
    IN {getMaxLoad(b.loads[s], b.allowedDimensions) : s \in b.storeIds}

\* C4: relaxBalanceCondition, once set, is cleared only by a cycle that observes
\* an empty regionPendings index (so rebuilds the snapshot) and finds a store
\* whose worst-axis load exceeds 1 + balanceRatio.
C4_RelaxClearedOnlyOnEmptyIndex ==
    [][(relaxBalanceCondition /\ ~relaxBalanceCondition') =>
          /\ Cycled
          /\ last'.observed = 0
          /\ last'.rebuilt
          /\ \E m \in FreshMaxLoads(cluster, pendingSums') :
                ~withinTolerance(m, balanceRatioConst + allowedDeviation)]_vars

\* a cycle entered relaxed, saw an empty index and cleared the flag
C4_RelaxCleared ==
    /\ last.relaxAtEntry
    /\ RanLoop(last.path)
    /\ last.observed = 0
    /\ ~relaxBalanceCondition

\* C5: a cycle returns split operators only when at least four cycles that
\* reached the decision loop without emitting a move lie between it and the last
\* cycle that returned splits (at most one split cycle in five), and a cycle
\* that emits a move leaves splitTrigeCount at 0.
C5_SplitCadence ==
    [][Cycled =>
          /\ last'.path = "split" => last.sinceSplit >= splitTrigger - 1
          /\ last'.path = "split" => splitTrigeCount' = splitTrigger
          /\ last'.path = "move" => splitTrigeCount' = 0]_vars

\* a cycle returned split operators again, four loop cycles after the last one
\* that did
C5_SecondSplit ==
    /\ last.path = "split"
    /\ last.sinceAtEntry = splitTrigger - 1
    /\ last.countAtEntry = splitTrigger - 1

\* C6: once a cycle has passed the mode check, the ledger holds no entry whose
\* operator finished more than MaxZombieDuration ago: none in regionPendings,
\* none among the pendings, and the pending sums count only the other entries.
C6_ZombiesCollected ==
    [][(Cycled /\ last'.path # "disabled") =>
          /\ \A r \in DOMAIN regionPendings' : regionPendings'[r] \notin Zombies(ops')
          /\ \A p \in pendings' : p.op \notin Zombies(ops')
          /\ pendingSums' = summaryPendingLoadInfluence(
                               {p \in pendings : p.op \notin Zombies(ops)}, ops)]_vars

\* a cycle met an operator that had finished more than MaxZombieDuration before
C6_ZombieMet ==
    /\ last.zombies > 0
    /\ last.path # "disabled"
    /\ Zombies(ops) = {}

\* the split operators of the last cycle, each with the axis, load and ratio it
\* was built from
SplitsOf(l) == {<< l.ret[k], l.splitLog[k] >> : k \in DOMAIN l.splitLog}

\* C7 (as stated): every split operator carries splitType 1 for a read axis
\* (3..5) and 0 for a write axis (0..2), splitDim 0 for a byte axis and 1
\* otherwise, and splitRatio = balanceRatio / load < 1; a write-byte peer of
\* load 2.0 under balanceRatio 0.1 is split with (0, 0.05, 0).
C7_SplitTypeReadIsOne ==
    \A x \in SplitsOf(last) :
        /\ IsSplit(x[1])
        /\ x[1].opts[3] = (IF x[2].maxID >= 3 THEN 1 ELSE 0)
        /\ x[1].opts[1] = (IF x[2].maxID % 3 = 0 THEN 0 ELSE 1)
        /\ x[1].opts[2] = (x[2].br * One) \div x[2].load
        /\ x[1].opts[2] < One
        /\ (x[2].maxID = 0 /\ x[2].load = 2 * One /\ x[2].br = balanceRatioConst)
              => x[1].opts = << 0, 5, 0 >>

\* C7 (amended): every split operator carries splitType 1 - maxID / 3, which is
\* 0 for a read axis (3..5) and 1 for a write axis (0..2), splitDim 0 for a
\* byte axis and 1 otherwise, and splitRatio = balanceRatio / load < 1 with the
\* configured balanceRatio; a write-byte peer of load 2.0 under balanceRatio
\* 0.1 is split with (0, 0.05, 1).
C7_SplitTypeWriteIsOne ==
    \A x \in SplitsOf(last) :
        /\ IsSplit(x[1])
        /\ x[1].opts[3] = 1 - (x[2].maxID \div 3)
        /\ x[1].opts[3] = (IF x[2].maxID >= 3 THEN 0 ELSE 1)
        /\ x[1].opts[1] = (IF x[2].maxID % 3 = 0 THEN 0 ELSE 1)
        /\ x[2].br = balanceRatioConst
        /\ x[1].opts[2] = (x[2].br * One) \div x[2].load
        /\ x[1].opts[2] < One
        /\ (x[2].maxID = 0 /\ x[2].load = 2 * One) => x[1].opts = << 0, 5, 1 >>

\* the write-byte peer of load 2.0 was split
C7_WriteByteSplit ==
    /\ last.path = "split"
    /\ \E x \in SplitsOf(last) :
          x[2].maxID = 0 /\ x[2].load = 2 * One /\ x[1].opts = << 0, 5, 1 >>

RelaxedTolerance == One + balanceRatioConst + allowedDeviation

\* C8 (as stated): a cycle that ends without emitting, with the cluster's
\* balance ratio at most 1 + balanceRatio + 0.05, leaves the flag set and the
\* effective ratio at balanceRatio + 0.05; and in a cycle entered with the flag
\* set no large region is refused a destination whose post-migration load is
\* at most 1 + balanceRatio + 0.05.
C8_RelaxedAcceptsMove ==
    /\ (last.path \in {"balanced", "nosplit", "split"} /\ last.ratio <= RelaxedTolerance)
          => relaxBalanceCondition /\ balanceRatio = balanceRatioConst + allowedDeviation
    /\ (last.relaxAtEntry /\ RanLoop(last.path)) =>
          \A x \in last.noDst : x.large => x.best > RelaxedTolerance

\* C8 (amended): a cycle whose decision loop ends without a destination, with the
\* cluster's balance ratio at most 1 + balanceRatio + 0.05, leaves the flag set
\* and the effective ratio at balanceRatio + 0.05; but the first store found
\* over the relaxed tolerance clears the flag and restores balanceRatio before
\* any destination is chosen, so every large region is still held to
\* 1 + balanceRatio: a move to a post-migration load of 1.13 is refused.
C8_RelaxedStillCapsMoves ==
    /\ (last.path \in {"balanced", "nosplit", "split"} /\ last.ratio <= RelaxedTolerance)
          => relaxBalanceCondition /\ balanceRatio = balanceRatioConst + allowedDeviation
    /\ (last.path \in {"move", "buildfail"}) =>
          /\ last.deci.br = balanceRatioConst
          /\ ~relaxBalanceCondition
          /\ last.deci.large => last.deci.newLoad <= One + balanceRatioConst
    /\ \A x \in last.noDst : x.large => x.best > One + balanceRatioConst

\* a cycle entered relaxed and refused a large region whose best destination
\* would have ended between 1 + balanceRatio and 1 + balanceRatio + 0.05
C8_RelaxedMoveRefused ==
    /\ last.relaxAtEntry
    /\ RanLoop(last.path)
    /\ \E x \in last.noDst :
          x.large /\ x.best > One + balanceRatioConst /\ x.best <= RelaxedTolerance

\* the clusters of scenario S1: two stores, region 1 led by store 1 with 1.5
\* times the expected read load, its follower on store 2 with none
IsS1(cid) == Clusters[cid] \in {ClusterTwoStores, ClusterTwoStoresCold}

\* C9 (as stated): in scenario S1 the first cycle emits exactly one
\* transfer-leader of the region from store 1 to store 2 and does not record
\* the region as a split candidate.
C9_S1TransfersLeader ==
    (IsS1(cluster) /\ last.path \notin {"init", "disabled"} /\ last.countAtEntry = 0) =>
        /\ last.ret = << OpDesc("transfer-leader", 1, 1, 2, << >>) >>
        /\ \A s \in Stores : curBalancer.splitCandidates[s] = << >>

\* C9 (amended): in scenario S1 the first cycle emits no operator.  With two
\* stores store 1 holds at most 2.0, so without the region it would fall below
\* 1 - balanceRatio: when the decision loop runs the region is set aside as a
\* split candidate before any destination is looked for.
C9_S1EmitsNothing ==
    (IsS1(cluster) /\ last.path \notin {"init", "disabled"} /\ last.countAtEntry = 0) =>
        /\ last.ret = << >>
        /\ regionPendings = << >>
        /\ last.path \in {"nosplit", "skip"}
        /\ last.path = "nosplit" =>
              /\ \E q \in Range(curBalancer.splitCandidates[1]) : q.regionID = 1
              /\ last.noDst = {}

\* the first cycle of S1 ran the decision loop
C9_S1FirstCycle ==
    /\ Clusters[cluster] = ClusterTwoStores
    /\ last.path = "nosplit"
    /\ last.countAtEntry = 0
    /\ splitTrigeCount = 1

\* C10: a region that has an entry in regionPendings is never chosen for a move:
\* the loop passes over it, and it stays excluded until its operator has
\* finished and MaxZombieDuration has elapsed since.
C10_PendingRegionExcluded ==
    [][(Cycled /\ last'.path = "move") =>
          \A r \in DOMAIN regionPendings :
             r = last'.deci.peer.regionID =>
                /\ IsEnd(ops[regionPendings[r]])
                /\ ops[regionPendings[r]].endAge > MaxZombieDuration]_vars

\* C11: a cycle whose fresh snapshot finds a store total that its hot peers do not
\* explain within the stability threshold returns no operators and leaves needInit
\* set when it returns, and the next cycle that runs builds a new snapshot.
UnstableBuilt(l, b) ==
    l.path = "skip" /\ l.rebuilt /\ b # NoBalancer /\ b.allowedDimensions # {} /\ b.skipSchedule
C11_UnstableSetsNeedInit ==
    [][Cycled =>
         /\ (UnstableBuilt(last', curBalancer') => last'.ret = << >> /\ needInit')
         /\ (UnstableBuilt(last, curBalancer) /\ last'.path # "disabled" => last'.rebuilt)]_vars

\* C12: a cycle that finds, after the collection, a non-empty region-pending index
\* while the condition is relaxed or a split is outstanding returns no operators and
\* leaves the relaxation flag, the split trigger counter, hasSplit, the cached
\* balancer and what the collection left of the ledger as they are; a cycle that
\* finds the index empty clears hasSplit (only its own split batch sets it again)
\* and rebuilds the balancer; and once split operators were returned, no operator
\* is returned before a cycle has observed an empty index.
C12_WaitWhilePending ==
    [][Cycled /\ last'.path # "disabled" =>
         /\ (last'.observed > 0 /\ (relaxBalanceCondition \/ hasSplit) =>
                /\ last'.ret = << >>
                /\ UNCHANGED << relaxBalanceCondition, splitTrigeCount, hasSplit, curBalancer >>
                /\ Ledger' = summaryPendingInfluence(Ledger))
         /\ (last'.observed = 0 =>
                /\ last'.rebuilt
                /\ (hasSplit' => \E i \in DOMAIN last'.ret : IsSplit(last'.ret[i])))
         /\ (last.splitWait /\ last'.observed > 0 => last'.ret = << >>)]_vars

\* a cycle has waited on the entries a split batch left in the index
C12_WaitedOnSplit ==
    last.path = "wait" /\ last.splitWait /\ hasSplit /\ last.observed > 0

\* the ledger a call of Schedule starts from: the collection has run unless the
\* scheduler is disabled
LedgerAtEntry(path) == IF path = "disabled" THEN Ledger ELSE summaryPendingInfluence(Ledger)
\* the regions whose index entry was created between the ledger led and the index rp
NewEntries(led, rp) ==
    {r \in DOMAIN rp : r \notin DOMAIN led.regionPendings \/ rp[r] # led.regionPendings[r]}

C14_BuilderRejectContinues ==
    last.deci # NoDecision => buildOperators(Clusters[cluster], last.deci) # << >>

\* the snapshot a cycle would build on the same statistics with the allowed
\* dimensions given, and the operator lists such a cycle can return
snapshotWith(cid, psums, allowed) ==
    snapshotOf(cid, Clusters[cid], expLoadsOf(Clusters[cid]),
               [s \in Stores |-> [i \in Axes |-> Clusters[cid].storeLoads[s][i] + psums[s][i]]],
               allowed)
cycleWith(cid, allowed, led, br, relax, count) ==
    UNION {{solveMultiLoads(b, br, relax, count, FALSE, led, order).ret : order \in storeOrders(b)} :
             b \in {snapshotWith(cid, led.pendingSums, allowed)}}

\* C15: enabling one more axis never makes a cycle emit an operator it would not
\* have emitted without it: what a cycle on a fresh snapshot returns is among the
\* operators of a cycle run from the same state with any one of its allowed axes
\* taken away.
C15_MoreAxesEmitNoMore ==
    [][Cycled /\ last'.rebuilt =>
         \A i \in curBalancer'.allowedDimensions :
            curBalancer'.allowedDimensions \ {i} # {} =>
               \E fewer \in cycleWith(cluster, curBalancer'.allowedDimensions \ {i},
                                      summaryPendingInfluence(Ledger),
                                      balanceRatioConst +
                                         (IF relaxBalanceCondition THEN allowedDeviation ELSE 0),
                                      relaxBalanceCondition, splitTrigeCount) :
                  Range(last'.ret) \subseteq Range(fewer)]_vars

\* the test of filterDstStores on store dst for the peer, were A the allowed axes
acceptWith(b, br, peer, dst, opTy, A) ==
    acceptDst(loadOfMigrated(b.loads[dst], peer, opTy, A), br, isLargeRegionOf(peer, br, A))
\* the pairs of a set of allowed axes and one more axis that the allowed axes S
\* of a snapshot are part of: S less one axis, and S with one axis added
AxisPairs(S) ==
    {<< S \ {i}, i >> : i \in {j \in S : S \ {j} # {}}} \cup {<< S, i >> : i \in Axes \ S}

\* C15 (amended): one more allowed axis can only disqualify destinations: for
\* every hot peer of the snapshot a cycle has worked on, every other store and
\* either operation type, a destination that filterDstStores accepts on a set of
\* allowed axes with one more axis is accepted without that axis.
C15_MoreAxesAcceptNoNewDst ==
    [][Cycled /\ last'.path \notin {"disabled", "wait"} =>
         \A s \in curBalancer'.storeIds : \A peer \in curBalancer'.hotPeers[s] :
         \A dst \in curBalancer'.storeIds \ {s} : \A opTy \in {"movePeer", "transferLeader"} :
         \A q \in AxisPairs(curBalancer'.allowedDimensions) :
            acceptWith(curBalancer', balanceRatio', peer, dst, opTy, q[1] \cup {q[2]})
               => acceptWith(curBalancer', balanceRatio', peer, dst, opTy, q[1])]_vars

\* a cycle has worked on a snapshot with a peer and a store that its allowed axes
\* less one accept, and that the one axis more disqualifies
C15_AxisDisqualifiesDst ==
    /\ curBalancer # NoBalancer /\ RanLoop(last.path)
    /\ \E s \in curBalancer.storeIds : \E peer \in curBalancer.hotPeers[s] :
       \E dst \in curBalancer.storeIds \ {s} :
       \E q \in AxisPairs(curBalancer.allowedDimensions) :
          /\ acceptWith(curBalancer, balanceRatio, peer, dst, "movePeer", q[1])
          /\ ~acceptWith(curBalancer, balanceRatio, peer, dst, "movePeer", q[1] \cup {q[2]})

PostLoad(d, allowed) ==
    MaxOf({d.dstLoads[i] + d.peer.loads[i] :
             i \in {j \in allowed : ~(d.opTy = "transferLeader" /\ ~loadCanTransfered(j))}}
          \cup {0})

\* C17: every emitted move-peer or transfer-leader whose peer has a normalized
\* load above balanceRatio on any axis leaves its destination at most at
\* 1 + balanceRatio after the migration.
C17_LargeOnAnyAxisCapped ==
    last.path = "move" /\ (\E i \in Axes : last.deci.peer.loads[i] > last.deci.br)
       => PostLoad(last.deci, curBalancer.allowedDimensions) <= One + last.deci.br

\* C17 (amended): every emitted move-peer or transfer-leader whose peer has a
\* normalized load above balanceRatio on an allowed axis leaves its destination at
\* most at 1 + balanceRatio after the migration; a move to a destination that ends
\* above it is of a peer at most balanceRatio on every allowed axis.
C17_LargeOnAllowedAxisCapped ==
    last.path = "move" =>
       \/ PostLoad(last.deci, curBalancer.allowedDimensions) <= One + last.deci.br
       \/ \A i \in curBalancer.allowedDimensions : last.deci.peer.loads[i] <= last.deci.br

\* a peer above balanceRatio on an allowed axis was moved
C17_LargePeerMoved ==
    /\ last.path = "move"
    /\ \E i \in curBalancer.allowedDimensions : last.deci.peer.loads[i] > last.deci.br

\* C18: an index entry is kept while its operator is unfinished and for the whole
\* zombie window after it has finished: a cycle removes an entry only if its
\* operator has been finished for longer than MaxZombieDuration, however long the
\* operator ran.
C18_KeptThroughZombieWindow ==
    [][Cycled /\ last'.path # "disabled" =>
         \A r \in DOMAIN regionPendings :
            LET op == ops[regionPendings[r]]
            IN ~IsEnd(op) \/ op.endAge <= MaxZombieDuration =>
                  r \in DOMAIN regionPendings' /\ ops'[regionPendings'[r]] = op]_vars

\* the load the source store of decision d had on axis i when d was taken
SrcLoadBefore(b, d, i) ==
    b.loads[d.srcStoreID][i] +
       (IF d.opTy = "movePeer" \/ loadCanTransfered(i) THEN d.peer.loads[i] ELSE 0)

\* C19: for every emitted move, at the moment of the decision the source store's
\* load on its worst allowed axis maxID is above 1 + balanceRatio and what the
\* source keeps on that axis, maxLoad - peer.load[maxID], is at least
\* 1 - balanceRatio; the moved peer is not among the source's split candidates,
\* and every split candidate a cycle records either would underfill its store or
\* found no destination.
C19_MoveFromOverloadedNoUnderfill ==
    /\ last.path = "move" =>
          /\ last.deci.maxID \in curBalancer.allowedDimensions
          /\ last.deci.maxLoad = SrcLoadBefore(curBalancer, last.deci, last.deci.maxID)
          /\ \A i \in curBalancer.allowedDimensions :
                SrcLoadBefore(curBalancer, last.deci, i) <= last.deci.maxLoad
          /\ last.deci.maxLoad > One + last.deci.br
          /\ last.deci.maxLoad - last.deci.peer.loads[last.deci.maxID] >= One - last.deci.br
          /\ \A k \in DOMAIN curBalancer.splitCandidates[last.deci.srcStoreID] :
                curBalancer.splitCandidates[last.deci.srcStoreID][k].regionID
                   # last.deci.peer.regionID
    /\ last.path \in {"split", "nosplit", "balanced"} =>
          \A s \in curBalancer.storeIds : \A k \in DOMAIN curBalancer.splitCandidates[s] :
             LET c == curBalancer.splitCandidates[s][k]
                 maxID == getMaxID(curBalancer.loads[s], curBalancer.allowedDimensions)
                 maxLoad == getMaxLoad(curBalancer.loads[s], curBalancer.allowedDimensions)
             IN \/ maxLoad - c.loads[maxID] < One - balanceRatioConst
                \/ \E n \in last.noDst : n.region = c.regionID /\ n.src = s

\* a move was emitted from a store that kept, as a split candidate, a peer that
\* would have underfilled it
C19_MovedPastCandidate ==
    /\ last.path = "move"
    /\ \E k \in DOMAIN curBalancer.splitCandidates[last.deci.srcStoreID] :
          last.deci.maxLoad
             - curBalancer.splitCandidates[last.deci.srcStoreID][k].loads[last.deci.maxID]
          < One - last.deci.br

\* C20: axis i is allowed in a snapshot iff the expected load of the cluster on i
\* is at least minExpLoads[i] and i is neither 2 nor 5; the ops axes are never
\* allowed, whatever their load; and a cycle served by a balancer with no allowed
\* axis finds it marked skipSchedule, returns no operators and registers nothing
\* in the ledger.
C20_AllowedAxesAndSkip ==
    [][Cycled /\ last'.path \notin {"disabled", "wait"} =>
         /\ last'.rebuilt =>
               \A i \in Axes :
                  i \in curBalancer'.allowedDimensions <=>
                     (expLoadsOf(Clusters[cluster])[i] >= minExpLoads[i] /\ i # 2 /\ i # 5)
         /\ 2 \notin curBalancer'.allowedDimensions /\ 5 \notin curBalancer'.allowedDimensions
         /\ curBalancer'.allowedDimensions = {} =>
               /\ curBalancer'.skipSchedule
               /\ last'.ret = << >>
               /\ Ledger' = summaryPendingInfluence(Ledger)]_vars

\* a cycle was served by a balancer with no allowed axis
C20_NoAxisAllowed ==
    /\ last.path = "skip" /\ curBalancer # NoBalancer
    /\ curBalancer.allowedDimensions = {}
    /\ \E i \in Axes : expLoadsOf(Clusters[cluster])[i] > 0

\* C21: a balancer snapshot is built only in a cycle that finds the region-pending
\* index empty after the collection (the first cycle included); a cycle that
\* reaches the decision loop while an entry remains works on the cached balancer:
\* its stores, allowed axes and skipSchedule bit stay, its scheduled regions only
\* grow, and its loads change only by the migration of a move; and every region
\* in the index was registered by the current balancer (a move it has marked
\* scheduled, or a split).
C21_RebuildOnlyOnEmptyIndex ==
    [][Cycled /\ last'.path \notin {"disabled", "wait"} =>
         /\ last'.rebuilt <=> last'.observed = 0
         /\ ~last'.rebuilt =>
               /\ curBalancer'.storeIds = curBalancer.storeIds
               /\ curBalancer'.allowedDimensions = curBalancer.allowedDimensions
               /\ curBalancer'.skipSchedule = curBalancer.skipSchedule
               /\ curBalancer.scheduledRegions \subseteq curBalancer'.scheduledRegions
               /\ (last'.path \notin {"move", "buildfail"} =>
                      /\ curBalancer'.loads = curBalancer.loads
                      /\ curBalancer'.scheduledRegions = curBalancer.scheduledRegions)
         /\ \A r \in DOMAIN regionPendings' :
               \/ r \in curBalancer'.scheduledRegions
               \/ IsSplit(ops'[regionPendings'[r]])]_vars

\* a cycle reached the decision loop on the cached balancer, whose loads are not
\* what a snapshot of the reported statistics would hold
C21_CachedBalancerReused ==
    /\ RanLoop(last.path) /\ ~last.rebuilt /\ last.observed > 0
    /\ curBalancer.loads[1][3] # Normalize(Clusters[cluster].storeLoads[1][3] + pendingSums[1][3],
                                           expLoadsOf(Clusters[cluster])[3])

\* C22: split operators are returned only by the cycle that invokes processSplit
\* for the fifth time since a cycle last went through the move path of the
\* decision loop (lines 647-652); the counter goes back to zero only there, and a
\* cycle that invokes processSplit adds one to it: after the fifth invocation no
\* split operator is returned until a cycle has taken the move path.
C22_SplitOnlyAtFifthCall ==
    [][Cycled =>
         /\ (\E i \in DOMAIN last'.ret : IsSplit(last'.ret[i])) =>
               /\ last'.path = "split"
               /\ last'.psCalls = splitTrigger
               /\ splitTrigeCount' = splitTrigger
         /\ last'.path \in {"split", "nosplit"} => splitTrigeCount' = splitTrigeCount + 1
         /\ splitTrigeCount' # splitTrigeCount /\ last'.path \notin {"split", "nosplit"} =>
               last'.path \in {"move", "buildfail"} /\ splitTrigeCount' = 0
         /\ splitTrigeCount' = last'.psCalls]_vars

\* processSplit was invoked again after its fifth invocation, and returned nothing
C22_InvokedPastTrigger ==
    last.path = "nosplit" /\ last.psCalls > splitTrigger /\ last.ratio > One + balanceRatio

\* C23: a cycle that returns no move operator leaves the loads and the scheduled
\* regions of the balancer it works on (the cached one, or the snapshot it has just
\* built) as they are and does not reset the split trigger counter, a cycle in
\* which the construction of the operator fails included.
C23_NoMoveLeavesBalancer ==
    [][Cycled /\ last'.path \notin {"disabled", "wait"}
              /\ ~(\E i \in DOMAIN last'.ret : IsMove(last'.ret[i])) =>
         \E base \in {IF last'.rebuilt THEN initHotPeerInfo(cluster, pendingSums')
                       ELSE curBalancer} :
            /\ curBalancer'.loads = base.loads
            /\ curBalancer'.scheduledRegions = base.scheduledRegions
            /\ splitTrigeCount' >= splitTrigeCount]_vars

\* C24: at the end of every cycle that passes the mode check, balanceRatio is the
\* configured ratio plus allowedDeviation when relaxBalanceCondition is true, and
\* the configured ratio when it is false.
C24_RatioFollowsRelaxFlag ==
    [][Cycled /\ last'.path # "disabled" =>
         balanceRatio' = balanceRatioConst +
                            (IF relaxBalanceCondition' THEN allowedDeviation ELSE 0)]_vars

\* a cycle that started relaxed has ended the relaxation
C24_RelaxationEnded ==
    /\ last.relaxAtEntry /\ ~relaxBalanceCondition /\ last.path # "disabled"
    /\ balanceRatio = balanceRatioConst

\* the wait guard holds the scheduler: the index has entries while the condition is
\* relaxed or a split is outstanding
Paused == DOMAIN regionPendings # {} /\ (relaxBalanceCondition \/ hasSplit)
\* the last cycle found the index empty, left hasSplit false unless it returned a
\* split itself, built a new balancer and went on to solveMultiLoads
Resumed ==
    /\ last.observed = 0
    /\ last.rebuilt
    /\ last.path \notin {"init", "disabled", "wait"}
    /\ hasSplit => last.path = "split"

\* C25: with mode 0, Schedule called again and again, time advancing and every
\* registered operator ending, a paused scheduler is always followed by a cycle
\* that finds the region-pending index empty, clears hasSplit, rebuilds the balancer
\* and runs the decision loop: it is never paused forever.  (A cycle that waits
\* leaves last.path = "wait", so the states after it are not Resumed and the
\* resuming cycle has to come later.)
C25_PausedLeadsToResumed == Paused ~> Resumed

\* a split was returned, the scheduler was paused on it, and the first cycle to
\* reach the decision loop again found the index empty and rebuilt
C25_ResumedAfterSplit ==
    Resumed /\ last.sinceAtEntry = 0 /\ ~hasSplit /\ splitTrigeCount > splitTrigger

====
